---- MODULE Spec2Model ----
(***************************************************************************)
(* Model of src/src/App.tsx: the pending file list of the XLSX merger, its *)
(* event handlers, and mergeAndDownload with its one suspension point (the *)
(* await of File.arrayBuffer() at line 66).                                *)
(*                                                                         *)
(* Strings are sequences of one-character strings, so that slice, endsWith *)
(* and concatenation are computed as JavaScript computes them.             *)
(***************************************************************************)
EXTENDS Naturals, Sequences, FiniteSets, TLC

VARIABLES
  files,         \* useState<UploadedFile[]>            (line 11)
  isProcessing,  \* useState(false)                     (line 12)
  merges,        \* the mergeAndDownload calls suspended at the await (line 66)
  done,          \* what the most recently ended mergeAndDownload call did
  alerts,        \* alert() calls since the last merge click      (line 89)
  downloads      \* XLSX.writeFile calls since the last merge click (line 86)

vars == <<files, isProcessing, merges, done, alerts, downloads>>

-----------------------------------------------------------------------------
(* Bounds of the model *)

\* longest pending list the user builds
MaxFiles == 2
\* longest list of requested names the resolver specification starts from
MaxNames == 3

(* Program constants *)

\* Excel's sheet-name limit: slice(0, 31) and maxLength={31}
MaxSheetNameLen == 31

-----------------------------------------------------------------------------
(* Strings *)

Min(a, b) == IF a <= b THEN a ELSE b

Rep(c, n) == [i \in 1..n |-> c]

\* String.prototype.slice(0, end) for end >= 0
Slice(s, end) == SubSeq(s, 1, Min(end, Len(s)))

\* String.prototype.endsWith
EndsWith(s, e) == Len(s) >= Len(e) /\ SubSeq(s, Len(s) - Len(e) + 1, Len(s)) = e

\* the case folding the /i flag applies, on the letters the extensions use
Lower(c) == CASE c = "X" -> "x" [] c = "L" -> "l" [] c = "S" -> "s" [] OTHER -> c

LowerStr(s) == [i \in 1..Len(s) |-> Lower(s[i])]

DotXlsx == <<".", "x", "l", "s", "x">>

DotXls == <<".", "x", "l", "s">>

\* the filter predicate of handleFileSelect
HasExcelExtension(name) == EndsWith(name, DotXlsx) \/ EndsWith(name, DotXls)

\* fault variant: the extension is left on the name
StripExtNoop(name) == name

\* file.name.replace(/\.(xlsx|xls)$/i, '')
StripExt(name) ==
  IF EndsWith(LowerStr(name), DotXlsx) THEN Slice(name, Len(name) - Len(DotXlsx))
  ELSE IF EndsWith(LowerStr(name), DotXls) THEN Slice(name, Len(name) - Len(DotXls))
  ELSE name

Digit(d) == <<"0", "1", "2", "3", "4", "5", "6", "7", "8", "9">>[d + 1]

RECURSIVE Digits(_)
\* the decimal text of a number, as a template literal prints it
Digits(n) == IF n < 10 THEN <<Digit(n)>> ELSE Digits(n \div 10) \o <<Digit(n % 10)>>

\* const suffix = `_${counter}`
Suffix(counter) == <<"_">> \o Digits(counter)

\* Array.prototype.includes
Includes(seq, x) == \E i \in 1..Len(seq) : seq[i] = x

-----------------------------------------------------------------------------
(* The codec (XLSX), as App.tsx uses it *)

Throws == [throws |-> TRUE]

BlobA == "blobA"

BlobB == "blobB"

BlobBad == "blobBad"

\* XLSX.read(arrayBuffer, { type: 'array' }): a workbook, or an exception
XLSX_read(blob) ==
  CASE blob = BlobA ->
         [throws |-> FALSE, SheetNames |-> <<"Sheet1", "Sheet2">>,
          Sheets |-> ("Sheet1" :> "A-first" @@ "Sheet2" :> "A-second")]
    [] blob = BlobB ->
         [throws |-> FALSE, SheetNames |-> <<"Zed", "Alpha">>,
          Sheets |-> ("Zed" :> "B-first" @@ "Alpha" :> "B-second")]
    [] OTHER -> Throws

\* XLSX.utils.book_new()
book_new == [SheetNames |-> <<>>, Sheets |-> <<>>]

\* XLSX.utils.book_append_sheet(newWorkbook, worksheet, sheetName)
book_append_sheet(wb, ws, sheetName) ==
  [SheetNames |-> Append(wb.SheetNames, sheetName),
   Sheets |-> (sheetName :> ws) @@ wb.Sheets]

\* fault variant: the last sheet is taken instead of the first
LastSheet(workbook) == workbook.Sheets[workbook.SheetNames[Len(workbook.SheetNames)]]

\* const firstSheetName = workbook.SheetNames[0]; workbook.Sheets[firstSheetName]
FirstSheet(workbook) == workbook.Sheets[workbook.SheetNames[1]]

-----------------------------------------------------------------------------
(* The name resolution of mergeAndDownload, lines 74-80 *)

\* fault variant: the name is cut one character short
InitialNameShort(requested) == Slice(requested, MaxSheetNameLen - 1)

\* let sheetName = uploadedFile.sheetName.slice(0, 31)
InitialName(requested) == Slice(requested, MaxSheetNameLen)

\* fault variant: the base is not cut
CandidateUntruncated(requested, counter) == requested \o Suffix(counter)

\* fault variant: the base is cut one character too short
CandidateOffByOne(requested, counter) ==
  Slice(requested, MaxSheetNameLen - Len(Suffix(counter)) - 1) \o Suffix(counter)

\* fault variant: the suffix is appended first and the whole is cut
CandidateCutWhole(requested, counter) ==
  Slice(requested \o Suffix(counter), MaxSheetNameLen)

\* uploadedFile.sheetName.slice(0, 31 - suffix.length) + suffix
Candidate(requested, counter) ==
  Slice(requested, MaxSheetNameLen - Len(Suffix(counter))) \o Suffix(counter)

RECURSIVE ResolveLoop(_, _, _, _)
\* while (newWorkbook.SheetNames.includes(sheetName)) { ...; counter++ }
\* The result is the name the loop leaves in sheetName and the number of times
\* its condition was evaluated.
ResolveLoop(requested, SheetNames, sheetName, counter) ==
  IF ~Includes(SheetNames, sheetName)
  THEN [sheetName |-> sheetName, tries |-> counter]
  ELSE ResolveLoop(requested, SheetNames, Candidate(requested, counter), counter + 1)

\* lines 74-80 for one file: sheetName and counter are initialised, then the loop
Resolve(requested, SheetNames) ==
  ResolveLoop(requested, SheetNames, InitialName(requested), 1)

-----------------------------------------------------------------------------
(* The files the user can select *)

NameA == <<"a">>

NameB == <<"b">>

\* a file name whose stem is one character over the sheet-name limit
LongStem == Rep("x", MaxSheetNameLen + 1)

\* the File objects of the model: name and content
FileUniverse ==
  { [name |-> NameA \o DotXlsx, blob |-> BlobA],
    [name |-> NameB \o DotXls, blob |-> BlobB],
    [name |-> LongStem \o DotXlsx, blob |-> BlobBad],
    [name |-> NameA \o <<".", "t", "x", "t">>, blob |-> BlobA] }

\* what the user can type into the sheet-name input
TypedNames == { NameA }

RECURSIVE SeqsUpTo(_, _)
\* the sequences over S of length at most n
SeqsUpTo(S, n) ==
  IF n = 0 THEN { <<>> }
  ELSE LET shorter == SeqsUpTo(S, n - 1)
       IN shorter \cup { Append(s, x) : s \in { t \in shorter : Len(t) = n - 1 }, x \in S }

RECURSIVE Filter(_)
\* Array.from(selectedFiles).filter(file => endsWith('.xlsx') || endsWith('.xls'))
Filter(selectedFiles) ==
  IF selectedFiles = <<>> THEN <<>>
  ELSE LET rest == Filter(Tail(selectedFiles))
       IN IF HasExcelExtension(Head(selectedFiles).name)
          THEN <<Head(selectedFiles)>> \o rest ELSE rest

\* xlsxFiles.map(file => ({ name, file, sheetName }))
NewFiles(xlsxFiles) ==
  [i \in 1..Len(xlsxFiles) |->
     [name |-> xlsxFiles[i].name, file |-> xlsxFiles[i].blob,
      sheetName |-> StripExt(xlsxFiles[i].name)]]

NoMerge == [outcome |-> "none"]

-----------------------------------------------------------------------------
(* Event handlers *)

\* handleFileSelect (also reached from handleDrop)
HandleFileSelect(selectedFiles) ==
  LET newFiles == NewFiles(Filter(selectedFiles))
  IN /\ Len(files) + Len(newFiles) <= MaxFiles
     /\ files' = files \o newFiles
     /\ UNCHANGED <<isProcessing, merges, done, alerts, downloads>>

\* removeFile(index); the button exists for each rendered row
RemoveFile(index) ==
  /\ index \in 1..Len(files)
  /\ files' = [i \in 1..(Len(files) - 1) |-> IF i < index THEN files[i] ELSE files[i + 1]]
  /\ UNCHANGED <<isProcessing, merges, done, alerts, downloads>>

\* updateSheetName(index, newName), called by the input's onChange;
\* the input carries maxLength={31}
UpdateSheetName(index, newName) ==
  /\ index \in 1..Len(files)
  /\ Len(newName) <= MaxSheetNameLen
  /\ files[index].sheetName # newName
  /\ files' = [files EXCEPT ![index].sheetName = newName]
  /\ UNCHANGED <<isProcessing, merges, done, alerts, downloads>>

\* the clear-all button, rendered while files.length > 0
ClearAll ==
  /\ Len(files) > 0
  /\ files' = <<>>
  /\ UNCHANGED <<isProcessing, merges, done, alerts, downloads>>

-----------------------------------------------------------------------------
(* mergeAndDownload *)

\* fault variant: the button ignores isProcessing
MergeButtonAlwaysEnabled == Len(files) # 0

\* the merge button: rendered while files.length > 0,
\* disabled={isProcessing || files.length === 0}
MergeButtonEnabled == ~isProcessing /\ Len(files) # 0

\* fault variant: the call reads the current state instead of its closure
LiveFiles(m) == files

\* the files array the call iterates: the one its closure captured
MergeFiles(m) == merges[m].files

\* the uploadedFile whose arrayBuffer() the call awaits
CurrentFile(m) == MergeFiles(m)[merges[m].idx]

\* the merges sequence without its m-th call
Without(m) == [i \in 1..(Len(merges) - 1) |-> IF i < m THEN merges[i] ELSE merges[i + 1]]

\* lines 67-82 for the file whose read completed: the workbook after the append
\* and the number of loop-condition evaluations
Appended(m) ==
  LET workbook == XLSX_read(CurrentFile(m).file)
      worksheet == FirstSheet(workbook)
      r == Resolve(CurrentFile(m).sheetName, merges[m].newWorkbook.SheetNames)
  IN [newWorkbook |-> book_append_sheet(merges[m].newWorkbook, worksheet, r.sheetName),
      tries |-> Append(merges[m].tries, r.tries)]

\* The click: lines 58-66, up to the first await
MergeClick ==
  /\ MergeButtonEnabled
  /\ Len(files) # 0
  /\ isProcessing' = TRUE
  /\ merges' = Append(merges, [files |-> files, idx |-> 1,
                               newWorkbook |-> book_new, tries |-> <<>>])
  /\ done' = NoMerge
  /\ alerts' = 0
  /\ downloads' = 0
  /\ UNCHANGED files

\* The read completes, the file decodes, and another file follows:
\* lines 67-82, then line 66 for the next file
ReadOkNext(m) ==
  /\ m \in 1..Len(merges)
  /\ merges[m].idx < Len(MergeFiles(m))
  /\ ~XLSX_read(CurrentFile(m).file).throws
  /\ merges' = [merges EXCEPT ![m].idx = @ + 1,
                              ![m].newWorkbook = Appended(m).newWorkbook,
                              ![m].tries = Appended(m).tries]
  /\ UNCHANGED <<files, isProcessing, done, alerts, downloads>>

\* The read of the last file completes and the file decodes:
\* lines 67-82, writeFile (line 86), finally (line 91)
ReadOkLast(m) ==
  /\ m \in 1..Len(merges)
  /\ merges[m].idx = Len(MergeFiles(m))
  /\ ~XLSX_read(CurrentFile(m).file).throws
  /\ downloads' = downloads + 1
  /\ done' = [outcome |-> "written", files |-> merges[m].files,
              newWorkbook |-> Appended(m).newWorkbook, tries |-> Appended(m).tries]
  /\ isProcessing' = FALSE
  /\ merges' = Without(m)
  /\ UNCHANGED <<files, alerts>>

\* fault variant: the sheets appended so far are written on a failure
ReadFailWritesPartial(m) ==
  /\ m \in 1..Len(merges)
  /\ merges[m].idx <= Len(MergeFiles(m))
  /\ XLSX_read(CurrentFile(m).file).throws
  /\ downloads' = downloads + 1
  /\ done' = [outcome |-> "written", files |-> merges[m].files,
              newWorkbook |-> merges[m].newWorkbook, tries |-> merges[m].tries]
  /\ isProcessing' = FALSE
  /\ merges' = Without(m)
  /\ UNCHANGED <<files, alerts>>

\* fault variant: the flag is not reset on a failure
ReadFailNoFinally(m) ==
  /\ m \in 1..Len(merges)
  /\ merges[m].idx <= Len(MergeFiles(m))
  /\ XLSX_read(CurrentFile(m).file).throws
  /\ alerts' = alerts + 1
  /\ done' = [outcome |-> "failed", files |-> merges[m].files,
              newWorkbook |-> merges[m].newWorkbook, tries |-> merges[m].tries]
  /\ merges' = Without(m)
  /\ UNCHANGED <<files, isProcessing, downloads>>

\* The read completes and XLSX.read throws: catch (lines 87-89), finally (line 91)
ReadFail(m) ==
  /\ m \in 1..Len(merges)
  /\ merges[m].idx <= Len(MergeFiles(m))
  /\ XLSX_read(CurrentFile(m).file).throws
  /\ alerts' = alerts + 1
  /\ done' = [outcome |-> "failed", files |-> merges[m].files,
              newWorkbook |-> merges[m].newWorkbook, tries |-> merges[m].tries]
  /\ isProcessing' = FALSE
  /\ merges' = Without(m)
  /\ UNCHANGED <<files, downloads>>

\* The promise of arrayBuffer() rejects (the file can no longer be read):
\* catch (lines 87-89), finally (line 91)
ReadReject(m) ==
  /\ m \in 1..Len(merges)
  /\ merges[m].idx <= Len(MergeFiles(m))
  /\ alerts' = alerts + 1
  /\ done' = [outcome |-> "failed", files |-> merges[m].files,
              newWorkbook |-> merges[m].newWorkbook, tries |-> merges[m].tries]
  /\ isProcessing' = FALSE
  /\ merges' = Without(m)
  /\ UNCHANGED <<files, downloads>>

\* one continuation of a suspended call
MergeStep == \E m \in 1..Len(merges) :
  ReadOkNext(m) \/ ReadOkLast(m) \/ ReadFail(m) \/ ReadReject(m)

-----------------------------------------------------------------------------
(* The application *)

Init ==
  /\ files = <<>>
  /\ isProcessing = FALSE
  /\ merges = <<>>
  /\ done = NoMerge
  /\ alerts = 0
  /\ downloads = 0

\* the FileLists of the model: one file, or two in either order
Selections ==
  { <<f>> : f \in FileUniverse } \cup { <<f, g>> : f \in FileUniverse, g \in FileUniverse }

SelectFiles == \E selectedFiles \in Selections : HandleFileSelect(selectedFiles)

Remove == \E index \in 1..Len(files) : RemoveFile(index)

Rename == \E index \in 1..Len(files), newName \in TypedNames :
  UpdateSheetName(index, newName)

ReadOkNextStep == \E m \in 1..Len(merges) : ReadOkNext(m)

ReadOkLastStep == \E m \in 1..Len(merges) : ReadOkLast(m)

ReadFailStep == \E m \in 1..Len(merges) : ReadFail(m)

ReadRejectStep == \E m \in 1..Len(merges) : ReadReject(m)

Next ==
  \/ SelectFiles
  \/ Remove
  \/ Rename
  \/ ClearAll
  \/ MergeClick
  \/ ReadOkNextStep
  \/ ReadOkLastStep
  \/ ReadFailStep
  \/ ReadRejectStep

Spec == Init /\ [][Next]_vars

\* every read the browser started completes or fails
FairSpec == Spec /\ WF_vars(MergeStep)

-----------------------------------------------------------------------------
(* The name resolution alone: mergeAndDownload applied to every pending list *)
(* of at most MaxNames files whose requested names come from RequestedNames  *)

X(n) == Rep("x", n)

\* requested names: empty, short, suffixed look-alikes, and names at, just
\* under and over the limit, some of them ending in a suffix
RequestedNames ==
  { <<>>, NameA, NameB,
    <<"a", "_", "1">>, <<"a", "_", "2">>,
    <<"D", "a", "t", "a">>,
    X(MaxSheetNameLen - 1), X(MaxSheetNameLen), X(MaxSheetNameLen + 1),
    X(MaxSheetNameLen - 2) \o <<"_", "1">>,
    X(MaxSheetNameLen - 2) \o <<"_", "2">> }

\* the entry handleFileSelect makes for the file named requested + ".xlsx"
Entry(requested) ==
  [name |-> requested \o DotXlsx, file |-> BlobA, sheetName |-> requested]

ResolveInit ==
  /\ files \in { [i \in 1..Len(names) |-> Entry(names[i])] :
                  names \in SeqsUpTo(RequestedNames, MaxNames) \ { <<>> } }
  /\ isProcessing = FALSE
  /\ merges = <<>>
  /\ done = NoMerge
  /\ alerts = 0
  /\ downloads = 0

ResolveNext ==
  \/ MergeClick
  \/ ReadOkNextStep
  \/ ReadOkLastStep

ResolveSpec == ResolveInit /\ [][ResolveNext]_vars

-----------------------------------------------------------------------------
(* What the properties below speak about *)

\* the mergeAndDownload calls on record: those suspended, and the last ended
Runs ==
  { [files |-> merges[m].files, newWorkbook |-> merges[m].newWorkbook,
     tries |-> merges[m].tries] : m \in 1..Len(merges) }
  \cup (IF done.outcome = "none" THEN {}
        ELSE { [files |-> done.files, newWorkbook |-> done.newWorkbook,
                tries |-> done.tries] })

\* the sheet names a list of pending files asks for
Requested(list) == [i \in 1..Len(list) |-> list[i].sheetName]

\* the first sheet of a decodable file, by the order of its SheetNames
FirstSheetOfFile(f) == XLSX_read(f.file).Sheets[XLSX_read(f.file).SheetNames[1]]

\* the k-th suffixed name the specification describes: the base cut, the suffix whole
SuffixedName(base, k) ==
  SubSeq(base, 1, Min(Len(base), MaxSheetNameLen - Len(Suffix(k)))) \o Suffix(k)

Data == <<"D", "a", "t", "a">>

-----------------------------------------------------------------------------
\* C1: the names appended to the output workbook are pairwise distinct and each
\* is at most 31 characters long, at every point of a merge and at its end,
\* whatever names the pending files request.
C1_NamesDistinctAndShort ==
  \A r \in Runs :
    LET names == r.newWorkbook.SheetNames
    IN /\ \A i \in 1..Len(names) : Len(names[i]) <= MaxSheetNameLen
       /\ \A i \in 1..Len(names), j \in 1..Len(names) : i # j => names[i] # names[j]

\* a merge has written three sheets for files that ask twice for the same name
\* and once for a name over the limit
C1_Witness ==
  /\ done.outcome = "written"
  /\ Len(done.newWorkbook.SheetNames) = 3
  /\ \E i \in 1..3, j \in 1..3 : i # j /\ done.files[i].sheetName = done.files[j].sheetName
  /\ \E i \in 1..3 : Len(done.files[i].sheetName) > MaxSheetNameLen

\* C2: a merge that succeeds on n files writes exactly n sheets, the i-th holding
\* the first sheet of the i-th file of the list the merge was started on.
C2_OneSheetPerFileInOrder ==
  done.outcome = "written" =>
    /\ downloads = 1
    /\ Len(done.newWorkbook.SheetNames) = Len(done.files)
    /\ \A i \in 1..Len(done.files) :
         done.newWorkbook.Sheets[done.newWorkbook.SheetNames[i]]
           = FirstSheetOfFile(done.files[i])

\* a written merge of two files with different contents that ask for the same name
C2_Witness ==
  /\ done.outcome = "written"
  /\ Len(done.files) = 2
  /\ done.files[1].file # done.files[2].file
  /\ done.files[1].sheetName = done.files[2].sheetName

\* what holds of every state for C3: nothing is written by a merge whose list
\* holds an undecodable file, and a failed merge raised one alert and wrote nothing
C3_State ==
  /\ done.outcome = "written" =>
       \A i \in 1..Len(done.files) : ~XLSX_read(done.files[i].file).throws
  /\ done.outcome = "failed" => alerts = 1 /\ downloads = 0
  /\ downloads > 0 => done.outcome = "written"

\* what holds of every step for C3: a step of a merge whose awaited file does not
\* decode, and any step that ends a merge without a download, ends the merge
\* with one alert, no write, the flag down and the pending list untouched
C3_Step ==
  \A m \in 1..Len(merges) :
    LET f == merges[m].files[merges[m].idx]
        stepped == merges' # merges /\ Len(merges') <= Len(merges)
        endedUnwritten == Len(merges') < Len(merges) /\ downloads' = downloads
    IN ((stepped /\ XLSX_read(f.file).throws) \/ endedUnwritten) =>
         /\ Len(merges') = Len(merges) - 1
         /\ alerts' = alerts + 1
         /\ downloads' = downloads
         /\ done'.outcome = "failed"
         /\ isProcessing' = FALSE
         /\ files' = files

C4_AtMostOneMerge ==
  /\ Len(merges) <= 1
  /\ Len(merges) >= 1 => isProcessing

\* a merge waits for its second file while the user has replaced the list
C4_Witness ==
  /\ Len(merges) = 1
  /\ merges[1].idx = 2
  /\ Len(files) = 2
  /\ files # merges[1].files

\* C5: a file whose name, cut to 31 characters, is taken gets the base cut to
\* 31 - len(suffix) characters followed by the whole suffix "_k", for the
\* smallest k >= 1 whose name is free; with the three examples of the claim.
C5_SmallestFreeSuffix ==
  /\ \A r \in Runs :
       LET names == r.newWorkbook.SheetNames
       IN \A i \in 1..Len(names) :
            LET req == r.files[i].sheetName
                used == { names[j] : j \in 1..(i - 1) }
            IN SubSeq(req, 1, Min(Len(req), MaxSheetNameLen)) \in used =>
                 \E k \in 1..i :
                   /\ names[i] = SuffixedName(req, k)
                   /\ names[i] \notin used
                   /\ \A j \in 1..(k - 1) : SuffixedName(req, j) \in used
  /\ done.outcome = "written" /\ Requested(done.files) = <<Data, Data>> =>
       done.newWorkbook.SheetNames = <<Data, Data \o <<"_", "1">> >>
  /\ done.outcome = "written" /\ Requested(done.files) = <<NameA, NameB, NameA>> =>
       done.newWorkbook.SheetNames = <<NameA, NameB, NameA \o <<"_", "1">> >>
  /\ done.outcome = "written"
       /\ Requested(done.files) = <<X(MaxSheetNameLen), X(MaxSheetNameLen)>> =>
       done.newWorkbook.SheetNames =
         <<X(MaxSheetNameLen), X(MaxSheetNameLen - 2) \o <<"_", "1">> >>

\* three files asked for the same 31-character name: the second and third got
\* suffixes 1 and 2
C5_Witness ==
  /\ done.outcome = "written"
  /\ Requested(done.files) = <<X(MaxSheetNameLen), X(MaxSheetNameLen), X(MaxSheetNameLen)>>
  /\ done.newWorkbook.SheetNames[3] = X(MaxSheetNameLen - 2) \o <<"_", "2">>

\* C6: when the requested names are pairwise distinct and at most 31 characters
\* long, every sheet gets the requested name of its file, unchanged.
C6_DistinctNamesKept ==
  \A r \in Runs :
    LET req == Requested(r.files)
    IN ( /\ \A i \in 1..Len(req) : Len(req[i]) <= MaxSheetNameLen
         /\ \A i \in 1..Len(req), j \in 1..Len(req) : i # j => req[i] # req[j] ) =>
       \A i \in 1..Len(r.newWorkbook.SheetNames) : r.newWorkbook.SheetNames[i] = req[i]

\* a written merge of three distinct names, one of them 31 characters long and
\* one that looks like a suffixed form of another
C6_Witness ==
  /\ done.outcome = "written"
  /\ Requested(done.files) = <<NameA, <<"a", "_", "1">>, X(MaxSheetNameLen)>>
  /\ done.newWorkbook.SheetNames = Requested(done.files)

Max(a, b) == IF a >= b THEN a ELSE b

\* the length of the extension a pending file's name ends with
ExtLen(name) ==
  IF SubSeq(name, Len(name) - 4, Len(name)) = DotXlsx THEN 5 ELSE 4

\* C7, as claimed: every pending entry's sheetName is at most 31 characters long.
C7_Original ==
  \A i \in 1..Len(files) : Len(files[i].sheetName) <= MaxSheetNameLen

\* C7, amended: every pending entry's sheetName is at most as long as the larger
\* of 31 and the length of its file name without the extension.
C7_SheetNameLength ==
  \A i \in 1..Len(files) :
    Len(files[i].sheetName)
      <= Max(MaxSheetNameLen, Len(files[i].name) - ExtLen(files[i].name))

\* a file with a long name keeps its 32-character sheetName beside a renamed entry
C7_Witness ==
  /\ Len(files) = 2
  /\ \E i \in 1..2 : Len(files[i].sheetName) > MaxSheetNameLen
  /\ \E i \in 1..2 : files[i].sheetName \o DotXls = NameA \o DotXls
                     /\ files[i].name = NameB \o DotXls

\* C8, as claimed: the loop condition is evaluated, for the i-th file, at most
\* (names already placed) + 1 times, so at most as often as there are files.
C8_Original ==
  \A r \in Runs :
    \A i \in 1..Len(r.tries) : r.tries[i] <= (i - 1) + 1 /\ r.tries[i] <= Len(r.files)

\* C8, amended: the loop ends after at most (names already placed) + 2
\* evaluations of its condition, and the suffixed candidates of one name are
\* distinct strings (the unsuffixed one may equal one of them).
C8_TriesBounded ==
  /\ \A r \in Runs :
       \A i \in 1..Len(r.tries) : r.tries[i] >= 1 /\ r.tries[i] <= (i - 1) + 2
  /\ \A i \in 1..Len(files) :
       \A j \in 1..(Len(files) + 1), k \in 1..(Len(files) + 1) :
         j # k => Candidate(files[i].sheetName, j) # Candidate(files[i].sheetName, k)

\* the second of two files took three evaluations: its 31-character name ends
\* in "_1", so the first suffixed candidate is the name itself
C8_Witness ==
  /\ done.outcome = "written"
  /\ Len(done.files) = 2
  /\ done.tries = <<1, 3>>
  /\ Candidate(done.files[2].sheetName, 1) = done.files[2].sheetName

\* C9: a merge that started ends, in a write or a failure, with the flag down;
\* after a failure the merge button works again.
C9_MergeEnds ==
  /\ isProcessing ~> ~isProcessing
  /\ [](isProcessing <=> Len(merges) > 0)
  /\ [](done.outcome = "failed" /\ Len(files) # 0 => ENABLED MergeClick)

\* a merge has failed, the flag is down and the list is still there to merge
C9_Witness ==
  /\ done.outcome = "failed"
  /\ ~isProcessing
  /\ Len(files) = 2
  /\ merges = <<>>

\* the names a sheet can get from a requested name at position i
NamesFor(req, i) ==
  { SubSeq(req, 1, Min(Len(req), MaxSheetNameLen)) }
  \cup { SuffixedName(req, k) : k \in 1..i }

\* the sheets of a workbook are those of the first n files of a list
SheetsOfPrefix(wb, list, n) ==
  /\ Len(wb.SheetNames) = n
  /\ n <= Len(list)
  /\ \A i \in 1..n :
       /\ wb.Sheets[wb.SheetNames[i]] = FirstSheetOfFile(list[i])
       /\ wb.SheetNames[i] \in NamesFor(list[i].sheetName, i)

\* C10: a running merge builds its sheets from the list it was started on,
\* whatever the user does to the pending list meanwhile.
C10_MergeUsesStartList ==
  /\ \A m \in 1..Len(merges) :
       SheetsOfPrefix(merges[m].newWorkbook, merges[m].files, merges[m].idx - 1)
  /\ done.outcome = "written" =>
       SheetsOfPrefix(done.newWorkbook, done.files, Len(done.files))

\* a merge has appended its first file and the user has cleared the list
C10_Witness ==
  /\ Len(merges) = 1
  /\ merges[1].idx = 2
  /\ Len(merges[1].newWorkbook.SheetNames) = 1
  /\ files = <<>>

====
